---------------------------- MODULE Spec2Model ----------------------------
(***************************************************************************)
(* Model of scripts/validate_docstrings.py: the DocstringValidator class   *)
(* (tree traversal, exclusion of private declarations, the docstring rules *)
(* and the error / warning lists) and the driver `main` (skip of test and  *)
(* missing paths, accumulation of all_valid, exit status).                 *)
(*                                                                         *)
(* A str is modelled as the sequence of its characters: "\n" is the line   *)
(* break, " " a blank, and <<"A", "r", "g", "s", ":">> is the text Args:   *)
(***************************************************************************)
EXTENDS Integers, Sequences, FiniteSets, TLC

(***************************************************************************)
(* Bounds of the model.                                                    *)
(***************************************************************************)
\* Longest command line (number of paths after the program name).
MaxPaths == 3
\* Deepest nesting of statements below the module in the generated trees.
MaxDepth == 3
\* Most lines of a generated docstring.
MaxDocLines == 2
\* Most positional parameters of a generated function.
MaxArgs == 2

(***************************************************************************)
(* str methods and the regular expressions of the rules.                   *)
(***************************************************************************)
\* Whitespace as str.strip() and the regex class \s see it.
IsSpace(c) == c \in {" ", "\n"}

RECURSIVE lstrip(_)
lstrip(s) == IF s # <<>> /\ IsSpace(Head(s)) THEN lstrip(Tail(s)) ELSE s

RECURSIVE rstrip(_)
rstrip(s) ==
    IF s # <<>> /\ IsSpace(s[Len(s)]) THEN rstrip(SubSeq(s, 1, Len(s) - 1)) ELSE s

strip(s) == rstrip(lstrip(s))

\* s.split("\n"): the lines of s; a text without line break is one line.
RECURSIVE split(_)
split(s) ==
    IF \A k \in 1..Len(s) : s[k] # "\n" THEN <<s>>
    ELSE LET p == CHOOSE k \in 1..Len(s) :
                      s[k] = "\n" /\ \A j \in 1..(k - 1) : s[j] # "\n"
         IN  <<SubSeq(s, 1, p - 1)>> \o split(SubSeq(s, p + 1, Len(s)))

\* "\n".join(lines)
RECURSIVE join(_)
join(lines) ==
    IF lines = <<>> THEN <<>>
    ELSE IF Len(lines) = 1 THEN lines[1]
    ELSE lines[1] \o <<"\n">> \o join(Tail(lines))

\* needle in s, for str
Contains(s, needle) ==
    \E k \in 0..(Len(s) - Len(needle)) : SubSeq(s, k + 1, k + Len(needle)) = needle

\* The positions where ^ matches under re.MULTILINE: the start of the text
\* and right after every line break.
LineStarts(s) == {p \in 1..(Len(s) + 1) : p = 1 \/ s[p - 1] = "\n"}

\* The positions \s* can reach from p.
SkipSpace(s, p) == {q \in p..(Len(s) + 1) : \A k \in p..(q - 1) : IsSpace(s[k])}

\* $ under re.MULTILINE: the end of the text or right before a line break.
AtLineEnd(s, p) == p = Len(s) + 1 \/ s[p] = "\n"

\* The literal text lit matches s at position q.
MatchAt(s, q, lit) == q + Len(lit) - 1 <= Len(s) /\ SubSeq(s, q, q + Len(lit) - 1) = lit

\* re.search(r"^\s*<header>\s*$", s, re.MULTILINE)
SearchHeader(s, header) ==
    \E p \in LineStarts(s) : \E q \in SkipSpace(s, p) :
        /\ MatchAt(s, q, header)
        /\ \E r \in SkipSpace(s, q + Len(header)) : AtLineEnd(s, r)

\* re.search(rf"^\s*{arg}\s*\(.*?\):", s, re.MULTILINE); arg is an
\* identifier, so it matches as the literal text.
SearchArg(s, arg) ==
    \E p \in LineStarts(s) : \E q \in SkipSpace(s, p) :
        /\ MatchAt(s, q, arg)
        /\ \E r \in SkipSpace(s, q + Len(arg)) :
              /\ r <= Len(s)
              /\ s[r] = "("
              /\ \E t \in (r + 1)..(Len(s) - 1) :
                    /\ s[t] = ")"
                    /\ s[t + 1] = ":"
                    /\ \A k \in (r + 1)..(t - 1) : s[k] # "\n"

(***************************************************************************)
(* ast.get_docstring(node), which cleans the text with inspect.cleandoc.   *)
(***************************************************************************)
\* len(line) - len(line.lstrip())
Indent(line) == Len(line) - Len(lstrip(line))

Min(S) == CHOOSE m \in S : \A n \in S : m <= n

RECURSIVE DropTrailingEmpty(_)
DropTrailingEmpty(lines) ==
    IF lines # <<>> /\ lines[Len(lines)] = <<>>
    THEN DropTrailingEmpty(SubSeq(lines, 1, Len(lines) - 1))
    ELSE lines

RECURSIVE DropLeadingEmpty(_)
DropLeadingEmpty(lines) ==
    IF lines # <<>> /\ Head(lines) = <<>> THEN DropLeadingEmpty(Tail(lines)) ELSE lines

\* inspect.cleandoc (the modelled texts hold no tab, so expandtabs changes nothing)
cleandoc(doc) ==
    LET lines   == split(doc)
        indents == {Indent(lines[k]) : k \in {j \in 2..Len(lines) : lstrip(lines[j]) # <<>>}}
        cut(k)  == IF k = 1 THEN lstrip(lines[1])
                   ELSE IF indents = {} THEN lines[k]
                   ELSE SubSeq(lines[k], Min(indents) + 1, Len(lines[k]))
        cleaned == [k \in 1..Len(lines) |-> cut(k)]
    IN  join(DropLeadingEmpty(DropTrailingEmpty(cleaned)))

\* A node's doc field is <<>> (the body does not start with a string) or
\* <<text>>.  The result is <<>> for None, <<cleaned text>> otherwise.
get_docstring(node) ==
    IF node.doc = <<>> THEN <<>> ELSE <<cleandoc(node.doc[1])>>

(***************************************************************************)
(* Syntax trees.  A node is a record                                       *)
(*   type       the ast class: Module, ClassDef, FunctionDef,              *)
(*              AsyncFunctionDef, Return, If, ExceptHandler                *)
(*   name       node.name (ClassDef, the function kinds, ExceptHandler)    *)
(*   lineno     node.lineno                                                *)
(*   doc        <<>> or <<text of the leading string statement>>           *)
(*   args       the names in node.args.args                                *)
(*   kwonlyargs the names in node.args.kwonlyargs                          *)
(*   value      of a Return: <<>> for None, <<"expr">> otherwise           *)
(*   body       the child statements (the leading docstring statement and  *)
(*              simple statements such as pass have no name, no children   *)
(*              and are no Return, so they are left out)                   *)
(***************************************************************************)
Node(type, name, lineno, doc, args, kwonlyargs, value, body) ==
    [type |-> type, name |-> name, lineno |-> lineno, doc |-> doc, args |-> args,
     kwonlyargs |-> kwonlyargs, value |-> value, body |-> body]

IsClassDef(node) == node.type = "ClassDef"
IsFunctionDef(node) == node.type \in {"FunctionDef", "AsyncFunctionDef"}

\* hasattr(node, "name"): the ast classes with a name field
HasName(node) == node.type \in {"ClassDef", "FunctionDef", "AsyncFunctionDef", "ExceptHandler"}

\* ast.iter_child_nodes(node): of the children only the statements of the
\* body can be or hold a declaration or a Return.
iter_child_nodes(node) == node.body

\* name.startswith("_")
StartsWithUnderscore(name) == name # <<>> /\ name[1] = "_"

NameInit == <<"_", "_", "i", "n", "i", "t", "_", "_">>
NamePostInit == <<"_", "_", "p", "o", "s", "t", "_", "i", "n", "i", "t", "_", "_">>
NameSelf == <<"s", "e", "l", "f">>
NameCls == <<"c", "l", "s">>

(***************************************************************************)
(* DocstringValidator.  A validator v is [errors, warnings], the two lists *)
(* of the instance; every method takes v and gives the validator after the *)
(* call.  A message is the record of what its f-string interpolates.       *)
(***************************************************************************)
Message(filepath, lineno, text, name, arg) ==
    [file |-> filepath, lineno |-> lineno, text |-> text, name |-> name, arg |-> arg]

AppendError(v, m) == [v EXCEPT !.errors = Append(@, m)]
AppendWarning(v, m) == [v EXCEPT !.warnings = Append(@, m)]

\* DocstringValidator.__init__
NewValidator == [errors |-> <<>>, warnings |-> <<>>]

\* DocstringValidator._has_return_statement: ast.walk(node) yields node and
\* every descendant, the bodies of nested declarations included.
RECURSIVE _has_return_statement(_)
_has_return_statement(node) ==
    \/ node.type = "Return" /\ node.value # <<>>
    \/ \E k \in 1..Len(node.body) : _has_return_statement(node.body[k])

\* The loop `for arg in args` of the Args rule.
RECURSIVE CheckArgsDocumented(_, _, _, _, _, _)
CheckArgsDocumented(v, docstring, name, filepath, lineno, args) ==
    IF args = <<>> THEN v
    ELSE LET v1 == IF ~SearchArg(docstring, Head(args))
                   THEN AppendWarning(v, Message(filepath, lineno,
                            "Argument not documented in Args section", name, Head(args)))
                   ELSE v
         IN  CheckArgsDocumented(v1, docstring, name, filepath, lineno, Tail(args))

\* The Summary rule.
SummaryRule(v, docstring, name, filepath, lineno) ==
    LET lines == split(strip(docstring))
    IN  IF lines = <<>> \/ strip(lines[1]) = <<>>
        THEN AppendError(v, Message(filepath, lineno,
                 "Docstring must start with summary line", name, <<>>))
        ELSE v

\* The Args rule.
ArgsRule(v, docstring, name, filepath, lineno, is_class, args) ==
    IF args # <<>> /\ ~is_class
    THEN IF ~SearchHeader(docstring, <<"A", "r", "g", "s", ":">>)
         THEN AppendError(v, Message(filepath, lineno,
                  "Missing 'Args:' section for function with arguments", name, <<>>))
         ELSE CheckArgsDocumented(v, docstring, name, filepath, lineno, args)
    ELSE v

\* A slip: the Returns rule reports an error instead of a warning.
ReturnsRule_AsError(v, docstring, name, filepath, lineno, is_class, has_return) ==
    IF has_return /\ ~is_class
           /\ ~SearchHeader(docstring, <<"R", "e", "t", "u", "r", "n", "s", ":">>)
    THEN AppendError(v, Message(filepath, lineno,
             "Missing 'Returns:' section for function with return statement", name, <<>>))
    ELSE v

\* The Returns rule.
ReturnsRule(v, docstring, name, filepath, lineno, is_class, has_return) ==
    IF has_return /\ ~is_class /\ ~SearchHeader(docstring, <<"R", "e", "t", "u", "r", "n", "s", ":">>)
    THEN AppendWarning(v, Message(filepath, lineno,
             "Missing 'Returns:' section for function with return statement", name, <<>>))
    ELSE v

\* DocstringValidator._validate_docstring_format (the Attributes rule of
\* classes searches the header and appends nothing).
_validate_docstring_format(v, docstring, name, filepath, lineno, is_class, args, has_return) ==
    LET v1 == SummaryRule(v, docstring, name, filepath, lineno)
        v2 == ArgsRule(v1, docstring, name, filepath, lineno, is_class, args)
    IN  ReturnsRule(v2, docstring, name, filepath, lineno, is_class, has_return)

\* f"{parent_name}.{node.name}" if parent_name else node.name
FullName(parent_name, name) ==
    IF parent_name # <<>> THEN parent_name \o <<".">> \o name ELSE name

\* DocstringValidator._validate_class
_validate_class(v, node, filepath, parent_name) ==
    IF StartsWithUnderscore(node.name) THEN v
    ELSE LET full_name == FullName(parent_name, node.name)
             docstring == get_docstring(node)
         IN  IF docstring = <<>> \/ docstring[1] = <<>>
             THEN AppendError(v, Message(filepath, node.lineno,
                      "Class missing docstring", full_name, <<>>))
             ELSE _validate_docstring_format(v, docstring[1], full_name, filepath,
                      node.lineno, TRUE, <<>>, FALSE)

\* args = [arg.arg for arg in node.args.args if arg.arg not in ("self", "cls")]
RECURSIVE DeclaredArgs(_)
DeclaredArgs(args) ==
    IF args = <<>> THEN <<>>
    ELSE IF Head(args) \notin {NameSelf, NameCls}
         THEN <<Head(args)>> \o DeclaredArgs(Tail(args))
         ELSE DeclaredArgs(Tail(args))

\* A slip: no return after the missing-docstring error, so the rules run on
\* the empty text.
_validate_function_NoEarlyReturn(v, node, filepath, parent_name) ==
    IF StartsWithUnderscore(node.name) /\ node.name \notin {NameInit, NamePostInit} THEN v
    ELSE LET full_name == FullName(parent_name, node.name)
             docstring == get_docstring(node)
             text      == IF docstring = <<>> THEN <<>> ELSE docstring[1]
             v1        == IF text = <<>>
                          THEN AppendError(v, Message(filepath, node.lineno,
                                   "Function missing docstring", full_name, <<>>))
                          ELSE v
         IN  _validate_docstring_format(v1, text, full_name, filepath,
                 node.lineno, FALSE, DeclaredArgs(node.args), _has_return_statement(node))

\* A slip: every function whose name starts with "_" is skipped, __init__
\* and __post_init__ too.
_validate_function_SkipDunder(v, node, filepath, parent_name) ==
    IF StartsWithUnderscore(node.name) THEN v
    ELSE LET full_name == FullName(parent_name, node.name)
             docstring == get_docstring(node)
         IN  IF docstring = <<>> \/ docstring[1] = <<>>
             THEN AppendError(v, Message(filepath, node.lineno,
                      "Function missing docstring", full_name, <<>>))
             ELSE _validate_docstring_format(v, docstring[1], full_name, filepath,
                      node.lineno, FALSE, DeclaredArgs(node.args),
                      _has_return_statement(node))

\* A slip: only None counts as a missing docstring (`if docstring is None`),
\* so an empty text reaches the rules.
_validate_function_NoneOnly(v, node, filepath, parent_name) ==
    IF StartsWithUnderscore(node.name) /\ node.name \notin {NameInit, NamePostInit} THEN v
    ELSE LET full_name == FullName(parent_name, node.name)
             docstring == get_docstring(node)
         IN  IF docstring = <<>>
             THEN AppendError(v, Message(filepath, node.lineno,
                      "Function missing docstring", full_name, <<>>))
             ELSE _validate_docstring_format(v, docstring[1], full_name, filepath,
                      node.lineno, FALSE, DeclaredArgs(node.args),
                      _has_return_statement(node))

\* DocstringValidator._validate_function
_validate_function(v, node, filepath, parent_name) ==
    IF StartsWithUnderscore(node.name) /\ node.name \notin {NameInit, NamePostInit} THEN v
    ELSE LET full_name == FullName(parent_name, node.name)
             docstring == get_docstring(node)
         IN  IF docstring = <<>> \/ docstring[1] = <<>>
             THEN AppendError(v, Message(filepath, node.lineno,
                      "Function missing docstring", full_name, <<>>))
             ELSE _validate_docstring_format(v, docstring[1], full_name, filepath,
                      node.lineno, FALSE, DeclaredArgs(node.args),
                      _has_return_statement(node))

\* child_parent of DocstringValidator._visit_node
ChildParent(node, parent_name) ==
    IF HasName(node) THEN parent_name \o <<".">> \o node.name ELSE parent_name

\* DocstringValidator._visit_node; VisitChildren is its loop over the
\* children, from the k-th on.
RECURSIVE _visit_node(_, _, _, _)
RECURSIVE VisitChildren(_, _, _, _, _)
_visit_node(v, node, filepath, parent_name) ==
    LET v1 == IF IsClassDef(node) THEN _validate_class(v, node, filepath, parent_name)
              ELSE IF IsFunctionDef(node)
                   THEN _validate_function(v, node, filepath, parent_name)
                   ELSE v
    IN  VisitChildren(v1, iter_child_nodes(node), 1, filepath, ChildParent(node, parent_name))

VisitChildren(v, children, k, filepath, child_parent) ==
    IF k > Len(children) THEN v
    ELSE VisitChildren(_visit_node(v, children[k], filepath, child_parent),
                       children, k + 1, filepath, child_parent)

\* A slip: the except branch returns True.
validate_file_SyntaxErrorTrue(v, p) ==
    IF p.parses
    THEN LET v1 == _visit_node(v, p.tree, p.parts, <<>>)
         IN  [v |-> v1, ret |-> Len(v1.errors) = 0]
    ELSE [v |-> AppendError(v, Message(p.parts, 0, "Syntax error", <<>>, <<>>)),
          ret |-> TRUE]

\* A slip: the except branch reports nothing.
validate_file_SyntaxErrorSilent(v, p) ==
    IF p.parses
    THEN LET v1 == _visit_node(v, p.tree, p.parts, <<>>)
         IN  [v |-> v1, ret |-> Len(v1.errors) = 0]
    ELSE [v |-> v, ret |-> FALSE]

\* DocstringValidator.validate_file.  A path p is [parts, exists, parses,
\* tree]: its components, whether the file exists, whether ast.parse
\* accepts its text, and the tree ast.parse gives.  The result is the
\* validator after the call and the value returned.
validate_file(v, p) ==
    IF p.parses
    THEN LET v1 == _visit_node(v, p.tree, p.parts, <<>>)
         IN  [v |-> v1, ret |-> Len(v1.errors) = 0]
    ELSE [v |-> AppendError(v, Message(p.parts, 0, "Syntax error", <<>>, <<>>)),
          ret |-> FALSE]

(***************************************************************************)
(* The inputs: docstrings, parameter lists, trees and paths.               *)
(***************************************************************************)
\* All sequences over S of length 1..n.
RECURSIVE SeqsUpTo(_, _)
SeqsUpTo(S, n) ==
    IF n = 0 THEN {}
    ELSE LET shorter == SeqsUpTo(S, n - 1)
         IN  {<<x>> : x \in S} \cup shorter \cup {Append(t, x) : t \in shorter, x \in S}

\* The lines a generated docstring is made of: prose, an empty line, a
\* line of one blank, an indented "Args:" header, a line documenting the
\* parameter x, a "Returns:" header followed by a blank, and prose that
\* names x and both headers in the middle of the line.
DocLines ==
    { <<"S">>,
      <<>>,
      <<" ">>,
      <<" ", "A", "r", "g", "s", ":">>,
      <<" ", "x", " ", "(", "t", ")", ":">>,
      <<"R", "e", "t", "u", "r", "n", "s", ":", " ">>,
      <<"x", " ", "A", "r", "g", "s", ":", " ", "R", "e", "t", "u", "r", "n", "s", ":", "S">> }

\* The texts of the docstrings: 1..MaxDocLines lines.
RawDocs == {join(ls) : ls \in SeqsUpTo(DocLines, MaxDocLines)}

\* A node's doc field: no docstring, or one of the texts.
DocFields == {<<>>} \cup {<<d>> : d \in RawDocs}

\* The doc fields of the nested trees: no docstring, or a summary line.
PlainDocFields == {<<>>, <<<<"S">>>>}

\* Parameter names, and the lists of at most MaxArgs distinct ones.
ArgNames == {NameSelf, NameCls, <<"x">>}
ArgLists ==
    {<<>>} \cup {a \in SeqsUpTo(ArgNames, MaxArgs) :
                    \A j, k \in 1..Len(a) : a[j] = a[k] => j = k}
KwOnlyLists == {<<>>, <<<<"k">>>>}

Return(lineno, value) == Node("Return", <<>>, lineno, <<>>, <<>>, <<>>, value, <<>>)
Returns(lineno) == {Return(lineno, <<>>), Return(lineno, <<"expr">>)}

\* The names of the nested trees' classes and functions.
ClassNames == {<<"C">>, <<"_", "P">>}
FunctionNames == {<<"f">>, <<"_", "g">>, NameInit, NamePostInit}

\* The statements at line lineno that nest at most d levels of compound
\* statements, each holding at most one statement: a return, a class, a
\* function, an if statement or an except handler.
RECURSIVE Stmts(_, _)
Stmts(d, lineno) ==
    IF d = 0 THEN {}
    ELSE LET bodies == {<<>>} \cup {<<st>> : st \in Stmts(d - 1, lineno + 1)}
         IN  Returns(lineno)
             \cup {Node("ClassDef", n, lineno, doc, <<>>, <<>>, <<>>, b) :
                      n \in ClassNames, doc \in PlainDocFields, b \in bodies}
             \cup {Node("FunctionDef", n, lineno, doc, <<>>, <<>>, <<>>, b) :
                      n \in FunctionNames, doc \in PlainDocFields, b \in bodies}
             \cup {Node("AsyncFunctionDef", <<"f">>, lineno, <<>>, <<>>, <<>>, <<>>, b) :
                      b \in bodies}
             \cup {Node("If", <<>>, lineno, <<>>, <<>>, <<>>, <<>>, b) : b \in bodies}
             \cup {Node("ExceptHandler", <<"e">>, lineno, <<>>, <<>>, <<>>, <<>>, b) :
                      b \in bodies}

\* One declaration with any docstring, parameter list and return.
RuleStmts ==
    {Node("FunctionDef", <<"f">>, 1, doc, a, kw, <<>>, b) :
        doc \in DocFields, a \in ArgLists, kw \in KwOnlyLists,
        b \in {<<>>} \cup {<<r>> : r \in Returns(2)}}
    \cup {Node("ClassDef", <<"C">>, 1, doc, <<>>, <<>>, <<>>, <<>>) : doc \in DocFields}

Module(body) == Node("Module", <<>>, 0, <<>>, <<>>, <<>>, <<>>, body)

Path(parts, exists, parses, tree) ==
    [parts |-> parts, exists |-> exists, parses |-> parses, tree |-> tree]

\* The file a whose module holds the one statement st.
TreePath(st) == Path(<<<<"a">>>>, TRUE, TRUE, Module(<<st>>))

NameTests == <<"t", "e", "s", "t", "s">>
TestMarker == <<"t", "e", "s", "t", "_">>

\* class C:                      (no docstring)
\*     def m(self, x):
\*         """S"""
\*         return expr
TreeErrorsAndWarnings ==
    Module(<<Node("ClassDef", <<"C">>, 1, <<>>, <<>>, <<>>, <<>>,
              <<Node("FunctionDef", <<"m">>, 2, <<<<"S">>>>, <<NameSelf, <<"x">>>>, <<>>, <<>>,
                     <<Return(4, <<"expr">>)>>)>>)>>)

\* def f():                      (no docstring)
\*     pass
\* def h():
\*     """S"""
\*     return expr
TreeSiblings ==
    Module(<<Node("FunctionDef", <<"f">>, 1, <<>>, <<>>, <<>>, <<>>, <<>>),
             Node("FunctionDef", <<"h">>, 3, <<<<"S">>>>, <<>>, <<>>, <<>>,
                  <<Return(5, <<"expr">>)>>)>>)

\* def f():
\*     """S"""
TreeClean == Module(<<Node("FunctionDef", <<"f">>, 1, <<<<"S">>>>, <<>>, <<>>, <<>>, <<>>)>>)

\* def f():
\*     """S"""
\*     return expr
TreeWarningOnly ==
    Module(<<Node("FunctionDef", <<"f">>, 1, <<<<"S">>>>, <<>>, <<>>, <<>>,
                  <<Return(3, <<"expr">>)>>)>>)

\* The paths of the command lines with several paths: a file below a
\* directory tests, a file whose name holds test_, a missing file, a file
\* that does not parse, and files whose validation gives no diagnostic,
\* warnings only, errors only after a clean start, and both.
DriverPaths ==
    { Path(<<NameTests, <<"a">>>>, TRUE, TRUE, TreeErrorsAndWarnings),
      Path(<<<<"d">>, <<"a">> \o TestMarker \o <<"b">>>>, TRUE, TRUE, TreeSiblings),
      Path(<<<<"m">>>>, FALSE, FALSE, Module(<<>>)),
      Path(<<<<"s">>>>, TRUE, FALSE, Module(<<>>)),
      Path(<<<<"c">>>>, TRUE, TRUE, TreeClean),
      Path(<<<<"w">>>>, TRUE, TRUE, TreeWarningOnly),
      Path(<<NameTests \o <<"x">>, <<"b">>>>, TRUE, TRUE, TreeErrorsAndWarnings),
      Path(<<<<"e">>>>, TRUE, TRUE, TreeSiblings) }

\* sys.argv[1:] is a: no path, 1..MaxPaths driver paths, or one file with
\* a generated tree.
IsArgv(a) ==
    \/ a = <<>>
    \/ a \in SeqsUpTo(DriverPaths, MaxPaths)
    \/ \E st \in Stmts(MaxDepth, 1) : a = <<TreePath(st)>>
    \/ \E st \in RuleStmts : a = <<TreePath(st)>>

(***************************************************************************)
(* main                                                                    *)
(***************************************************************************)
VARIABLES
    argv,       \* sys.argv[1:]
    i,          \* number of paths the loop of main has taken
    validator,  \* the DocstringValidator: [errors, warnings]
    all_valid,  \* the local of main
    ret,        \* <<value>> of the validate_file call of the last iteration, <<>> if it made none
    before,     \* [errors, warnings, all_valid] as they were when the last iteration began
    pc,         \* "loop" or "done"
    status      \* <<>> while main runs, <<exit status>> once it has returned

vars == <<argv, i, validator, all_valid, ret, before, pc, status>>

\* filepath.name
PathName(p) == IF p.parts = <<>> THEN <<>> ELSE p.parts[Len(p.parts)]

\* A slip: only the file name is looked at.
IsTestFile_NameOnly(p) == Contains(PathName(p), TestMarker)

\* "test_" in filepath.name or filepath.parts and "tests" in filepath.parts
IsTestFile(p) ==
    \/ Contains(PathName(p), TestMarker)
    \/ (p.parts # <<>> /\ \E k \in 1..Len(p.parts) : p.parts[k] = NameTests)

\* The lists and the flag at the start of an iteration.
Snapshot ==
    [errors |-> validator.errors, warnings |-> validator.warnings, all_valid |-> all_valid]

Init ==
    /\ IsArgv(argv)
    /\ i = 0
    /\ validator = NewValidator
    /\ all_valid = TRUE
    /\ ret = <<>>
    /\ before = [errors |-> <<>>, warnings |-> <<>>, all_valid |-> TRUE]
    /\ pc = "loop"
    /\ status = <<>>

\* len(sys.argv) < 2: usage message, return 1
Usage ==
    /\ pc = "loop"
    /\ argv = <<>>
    /\ pc' = "done"
    /\ status' = <<1>>
    /\ UNCHANGED <<argv, i, validator, all_valid, ret, before>>

\* One iteration of the loop on a test file: continue
SkipTestFile ==
    /\ pc = "loop"
    /\ i < Len(argv)
    /\ IsTestFile(argv[i + 1])
    /\ i' = i + 1
    /\ ret' = <<>>
    /\ before' = Snapshot
    /\ UNCHANGED <<argv, validator, all_valid, pc, status>>

\* One iteration on a path that does not exist: a notice, continue
SkipMissing ==
    /\ pc = "loop"
    /\ i < Len(argv)
    /\ ~IsTestFile(argv[i + 1])
    /\ ~argv[i + 1].exists
    /\ i' = i + 1
    /\ ret' = <<>>
    /\ before' = Snapshot
    /\ UNCHANGED <<argv, validator, all_valid, pc, status>>

\* One iteration that calls validator.validate_file(filepath)
ValidateFile ==
    /\ pc = "loop"
    /\ i < Len(argv)
    /\ ~IsTestFile(argv[i + 1])
    /\ argv[i + 1].exists
    /\ LET r == validate_file(validator, argv[i + 1])
       IN  /\ validator' = r.v
           /\ ret' = <<r.ret>>
           /\ all_valid' = IF ~r.ret THEN FALSE ELSE all_valid
    /\ i' = i + 1
    /\ before' = Snapshot
    /\ UNCHANGED <<argv, pc, status>>

\* After the loop: print_results (which changes nothing) and the return
Finish ==
    /\ pc = "loop"
    /\ argv # <<>>
    /\ i = Len(argv)
    /\ pc' = "done"
    /\ status' = <<IF all_valid THEN 0 ELSE 1>>
    /\ UNCHANGED <<argv, i, validator, all_valid, ret, before>>

Next == Usage \/ SkipTestFile \/ SkipMissing \/ ValidateFile \/ Finish

Spec == Init /\ [][Next]_vars

(***************************************************************************)
(* Vocabulary of the properties.                                           *)
(***************************************************************************)
\* The path the last iteration took.
Cur == argv[i]

\* The last iteration called validate_file.
Called == i >= 1 /\ ret # <<>>

\* The last iteration called validate_file on a file that parsed.
Visited == Called /\ Cur.parses

\* The lists only grow.
Grown ==
    /\ Len(before.errors) <= Len(validator.errors)
    /\ SubSeq(validator.errors, 1, Len(before.errors)) = before.errors
    /\ Len(before.warnings) <= Len(validator.warnings)
    /\ SubSeq(validator.warnings, 1, Len(before.warnings)) = before.warnings

\* What the last iteration appended.
NewErrors == SubSeq(validator.errors, Len(before.errors) + 1, Len(validator.errors))
NewWarnings == SubSeq(validator.warnings, Len(before.warnings) + 1, Len(validator.warnings))

\* The entries of a list reported at a line, and those with a given text.
AtLine(msgs, lineno) == {k \in 1..Len(msgs) : msgs[k].lineno = lineno}
AtLineWith(msgs, lineno, text) ==
    {k \in 1..Len(msgs) : msgs[k].lineno = lineno /\ msgs[k].text = text}

TextMissingDocstring(node) ==
    IF node.type = "ClassDef" THEN "Class missing docstring" ELSE "Function missing docstring"
TextSummary == "Docstring must start with summary line"
TextMissingArgs == "Missing 'Args:' section for function with arguments"
TextArgNotDocumented == "Argument not documented in Args section"
TextMissingReturns == "Missing 'Returns:' section for function with return statement"

IsDeclaration(node) == node.type \in {"ClassDef", "FunctionDef", "AsyncFunctionDef"}
IsFunction(node) == node.type \in {"FunctionDef", "AsyncFunctionDef"}

\* The declarations of a tree, each with the names of the declarations that
\* enclose it, outermost first.
RECURSIVE Declarations(_, _)
Declarations(node, outer) ==
    LET inner == IF IsDeclaration(node) THEN Append(outer, node.name) ELSE outer
    IN  (IF IsDeclaration(node) THEN {[node |-> node, outer |-> outer]} ELSE {})
        \cup UNION {Declarations(node.body[k], inner) : k \in 1..Len(node.body)}

CurDeclarations == Declarations(Cur.tree, <<>>)

\* Excluded by its own name.
Excluded(node) ==
    /\ node.name[1] = "_"
    /\ ~(IsFunction(node) /\ node.name \in {NameInit, NamePostInit})

\* The declaration reaches the rules: it is not excluded and has a docstring.
HasDocstring(node) == get_docstring(node) # <<>> /\ get_docstring(node)[1] # <<>>
Documented(node) == ~Excluded(node) /\ HasDocstring(node)

\* Some line of the text consists of the header alone (blanks aside).
HasHeaderLine(text, header) ==
    \E k \in 1..Len(split(text)) : strip(split(text)[k]) = header
HeaderArgs == <<"A", "r", "g", "s", ":">>
HeaderReturns == <<"R", "e", "t", "u", "r", "n", "s", ":">>

\* The parameters other than the receiver.
Parameters(node) ==
    {node.args[k] : k \in 1..Len(node.args)}
        \cup {node.kwonlyargs[k] : k \in 1..Len(node.kwonlyargs)}
OwnParameters(node) == Parameters(node) \ {NameSelf, NameCls}

\* A return with a value in the node's own statements: nested blocks
\* count, the bodies of nested functions do not.
RECURSIVE ReturnsValueIn(_)
ReturnsValueIn(node) ==
    \/ node.type = "Return" /\ node.value # <<>>
    \/ ~IsFunction(node) /\ \E k \in 1..Len(node.body) : ReturnsValueIn(node.body[k])
ReturnsValue(node) == \E k \in 1..Len(node.body) : ReturnsValueIn(node.body[k])

\* The dotted text of a sequence of names.
RECURSIVE Dotted(_)
Dotted(names) ==
    IF Len(names) = 1 THEN names[1]
    ELSE names[1] \o <<".">> \o Dotted(Tail(names))

(***************************************************************************)
(* C1                                                                      *)
(***************************************************************************)
\* C1: when main has returned from a run over one or more paths, the exit
\* status is 0 if and only if the validator's error list is empty,
\* whatever the warnings.
C1_ExitStatusIffNoErrors ==
    (pc = "done" /\ argv # <<>>) =>
        /\ status \in {<<0>>, <<1>>}
        /\ (status = <<0>>) <=> (validator.errors = <<>>)

\* A run over several paths that ends with warnings and status 0.
C1_Witness ==
    /\ pc = "done"
    /\ Len(argv) > 1
    /\ status = <<0>>
    /\ validator.warnings # <<>>

(***************************************************************************)
(* C2                                                                      *)
(***************************************************************************)
\* C2: for every non-excluded class or function without docstring of a
\* validated file, the validation appends exactly one error at its line,
\* the missing-docstring error, and no warning at its line: no other rule
\* is evaluated for it.
C2_MissingDocstringOnly ==
    Visited =>
        /\ Grown
        /\ \A d \in CurDeclarations :
              (~Excluded(d.node) /\ d.node.doc = <<>>) =>
                  /\ Cardinality(AtLine(NewErrors, d.node.lineno)) = 1
                  /\ \A k \in AtLine(NewErrors, d.node.lineno) :
                        NewErrors[k].text = TextMissingDocstring(d.node)
                  /\ AtLine(NewWarnings, d.node.lineno) = {}

\* A function without docstring, with a parameter and a returned value,
\* has been validated: the Args and Returns rules would have fired.
C2_Witness ==
    /\ Visited
    /\ \E d \in CurDeclarations :
          /\ IsFunction(d.node)
          /\ ~Excluded(d.node)
          /\ d.node.doc = <<>>
          /\ OwnParameters(d.node) # {}
          /\ ReturnsValue(d.node)
          /\ Cardinality(AtLine(NewErrors, d.node.lineno)) = 1

(***************************************************************************)
(* C3                                                                      *)
(***************************************************************************)
\* C3: for every validated function with a docstring that declares a
\* parameter other than self/cls and whose docstring has no line that is
\* "Args:" alone, exactly one error "missing 'Args:' section" and no
\* warning "argument not documented" is appended.
C3_MissingArgsSection ==
    Visited =>
        \A d \in CurDeclarations :
            ( /\ IsFunction(d.node)
              /\ Documented(d.node)
              /\ OwnParameters(d.node) # {}
              /\ ~HasHeaderLine(get_docstring(d.node)[1], HeaderArgs) ) =>
                /\ Cardinality(AtLineWith(NewErrors, d.node.lineno, TextMissingArgs)) = 1
                /\ AtLineWith(NewWarnings, d.node.lineno, TextArgNotDocumented) = {}

(***************************************************************************)
(* C4                                                                      *)
(***************************************************************************)
\* C4: for every validated function with a docstring that returns a value
\* and whose docstring has no line that is "Returns:" alone, exactly one
\* warning "missing 'Returns:' section" is appended and every error at its
\* line is one of the Summary and Args rules, whether or not the Args rule
\* fired.
C4_MissingReturnsIsWarning ==
    Visited =>
        \A d \in CurDeclarations :
            ( /\ IsFunction(d.node)
              /\ Documented(d.node)
              /\ ReturnsValue(d.node)
              /\ ~HasHeaderLine(get_docstring(d.node)[1], HeaderReturns) ) =>
                /\ Cardinality(AtLineWith(NewWarnings, d.node.lineno, TextMissingReturns)) = 1
                /\ \A k \in AtLine(NewErrors, d.node.lineno) :
                      NewErrors[k].text \in {TextSummary, TextMissingArgs}

\* A function that returns a value got the Returns warning and the error
\* of the Args rule.
C4_Witness ==
    /\ Visited
    /\ \E d \in CurDeclarations :
          /\ IsFunction(d.node)
          /\ ReturnsValue(d.node)
          /\ Cardinality(AtLineWith(NewWarnings, d.node.lineno, TextMissingReturns)) = 1
          /\ AtLineWith(NewErrors, d.node.lineno, TextMissingArgs) # {}

(***************************************************************************)
(* C5                                                                      *)
(***************************************************************************)
\* C5: a file that does not parse adds exactly one error, the file-level
\* one, and no warning; and main returns only after it has taken every
\* path of the command line.
C5_SyntaxErrorOneError ==
    /\ (Called /\ ~Cur.parses) =>
          /\ Grown
          /\ Len(NewErrors) = 1
          /\ NewErrors[1] = Message(Cur.parts, 0, "Syntax error", <<>>, <<>>)
          /\ NewWarnings = <<>>
    /\ (pc = "done" /\ argv # <<>>) => i = Len(argv)

\* A file that does not parse was followed by a file that was validated.
C5_Witness ==
    /\ i >= 2
    /\ ~IsTestFile(argv[i - 1]) /\ argv[i - 1].exists /\ ~argv[i - 1].parses
    /\ Visited
    /\ NewErrors # <<>>

(***************************************************************************)
(* C6                                                                      *)
(***************************************************************************)
\* The path is skipped: its name holds test_, a component is tests, or no
\* such file exists.
NameHoldsMarker(p) ==
    \E k \in 1..Len(PathName(p)) :
        k + 4 <= Len(PathName(p)) /\ SubSeq(PathName(p), k, k + 4) = TestMarker
Skipped(p) ==
    \/ NameHoldsMarker(p)
    \/ \E k \in 1..Len(p.parts) : p.parts[k] = NameTests
    \/ ~p.exists

\* C6: an iteration on a test file or a missing path leaves errors,
\* warnings and all_valid as they were, and a run over such paths only
\* exits with status 0.
C6_SkippedPathsChangeNothing ==
    /\ (i >= 1 /\ Skipped(Cur)) =>
          /\ validator.errors = before.errors
          /\ validator.warnings = before.warnings
          /\ all_valid = before.all_valid
    /\ (pc = "done" /\ argv # <<>> /\ \A k \in 1..Len(argv) : Skipped(argv[k])) =>
          status = <<0>>

\* After a file with errors, a file below tests that holds undocumented
\* declarations was skipped.
C6_Witness ==
    /\ i >= 2
    /\ before.errors # <<>>
    /\ \E k \in 1..(Len(Cur.parts) - 1) : Cur.parts[k] = NameTests
    /\ Cur.exists /\ Cur.parses
    /\ \E d \in CurDeclarations : ~Excluded(d.node) /\ d.node.doc = <<>>

C8_QualifiedName ==
    Visited =>
        \A d \in CurDeclarations :
            \A k \in AtLine(NewErrors, d.node.lineno) :
                NewErrors[k].name = Dotted(Append(d.outer, d.node.name))

(***************************************************************************)
(* C9                                                                      *)
(***************************************************************************)
\* C9: a validated function with a docstring that has no "Returns:" line
\* gets the Returns warning if and only if its own statements, nested
\* blocks included and nested functions' bodies excluded, hold a return
\* with a value.
C9_OwnReturnsOnly ==
    Visited =>
        \A d \in CurDeclarations :
            ( /\ IsFunction(d.node)
              /\ Documented(d.node)
              /\ ~HasHeaderLine(get_docstring(d.node)[1], HeaderReturns) ) =>
                (AtLineWith(NewWarnings, d.node.lineno, TextMissingReturns) # {}
                    <=> ReturnsValue(d.node))

(***************************************************************************)
(* C10                                                                     *)
(***************************************************************************)
\* C10: validate_file returns True exactly when the file it validated
\* contributed no error, whatever was validated before.
C10_ReturnValueIsPerFile ==
    Called => (ret = <<TRUE>> <=> NewErrors = <<>>)

(***************************************************************************)
(* C11                                                                     *)
(***************************************************************************)
\* The text holds a character that is no whitespace.
HasText(text) == \E k \in 1..Len(text) : text[k] \notin {" ", "\n"}

\* C11: in a validated file the error "Docstring must start with summary
\* line" is reported only for a declaration whose docstring, as
\* ast.get_docstring gives it, is non-empty and holds whitespace only; a
\* declaration whose docstring holds a character that is no whitespace
\* never gets it, whatever blank lines come before its first text.
C11_SummaryErrorOnlyForBlankDocstring ==
    Visited =>
        \A d \in CurDeclarations :
            /\ AtLineWith(NewErrors, d.node.lineno, TextSummary) # {} =>
                  /\ ~Excluded(d.node)
                  /\ get_docstring(d.node) # <<>>
                  /\ get_docstring(d.node)[1] # <<>>
                  /\ ~HasText(get_docstring(d.node)[1])
                  /\ ~HasText(d.node.doc[1])
            /\ (d.node.doc # <<>> /\ HasText(d.node.doc[1])) =>
                  AtLineWith(NewErrors, d.node.lineno, TextSummary) = {}

\* A declaration whose docstring is blanks and a line break got the
\* Summary error, and nothing else at its line.
C11_Witness ==
    /\ Visited
    /\ \E d \in CurDeclarations :
          /\ d.node.doc # <<>>
          /\ Len(d.node.doc[1]) > 1
          /\ ~HasText(d.node.doc[1])
          /\ Cardinality(AtLineWith(NewErrors, d.node.lineno, TextSummary)) = 1
          /\ Cardinality(AtLine(NewErrors, d.node.lineno)) = 1

=============================================================================
